---------------------------- MODULE Spec2Model ----------------------------
(***************************************************************************)
(* A model of mongobackuptools/backups.py: the backup and restore          *)
(* orchestrators, the mongodump / mongorestore command builders, the       *)
(* file-name timestamp codec and the retention purge.                      *)
(*                                                                         *)
(* File names and time tags are sequences of one-character strings, so     *)
(* that formatting (strftime) and parsing (strptime) are computed on the   *)
(* characters.  A datetime is a record of its calendar fields, compared    *)
(* field by field as Python compares naive datetimes.  A directory is the  *)
(* set of the names of its entries.                                        *)
(***************************************************************************)
EXTENDS Integers, Sequences, FiniteSets, TLC

\* An optional argument: None, or a value
None == [some |-> FALSE]
Some(v) == [some |-> TRUE, val |-> v]

(***************************************************************************)
(* datetime: the proleptic Gregorian calendar of Python's datetime module  *)
(***************************************************************************)
IsLeap(y) == (y % 4 = 0) /\ ((y % 100 # 0) \/ (y % 400 = 0))

DaysInMonth(y, m) ==
    IF m = 2 THEN (IF IsLeap(y) THEN 29 ELSE 28)
    ELSE IF m \in {4, 6, 9, 11} THEN 30 ELSE 31

\* datetime(year, month, day, hour, minute) accepts exactly these fields
\* (MINYEAR = 1, MAXYEAR = 9999); anything else raises ValueError.
ValidDate(y, m, d) ==
    /\ y \in 1..9999
    /\ m \in 1..12
    /\ d >= 1
    /\ d <= DaysInMonth(y, m)

DateTime(y, m, d, H, M, S) ==
    [year |-> y, month |-> m, day |-> d, hour |-> H, minute |-> M, second |-> S]

\* (a <= b in place of a < b)
BeforeOrAt(a, b) ==
    LET ka == <<a.year, a.month, a.day, a.hour, a.minute, a.second>>
        kb == <<b.year, b.month, b.day, b.hour, b.minute, b.second>>
    IN  \/ ka = kb
        \/ \E i \in 1..6 : /\ ka[i] < kb[i]
                            /\ \A j \in 1..(i - 1) : ka[j] = kb[j]

\* datetime.__lt__ on naive datetimes: lexicographic on the fields
Before(a, b) ==
    LET ka == <<a.year, a.month, a.day, a.hour, a.minute, a.second>>
        kb == <<b.year, b.month, b.day, b.hour, b.minute, b.second>>
    IN  \E i \in 1..6 : /\ ka[i] < kb[i]
                        /\ \A j \in 1..(i - 1) : ka[j] = kb[j]

\* .replace(second=0, microsecond=0)
TruncateToMinute(t) == [t EXCEPT !.second = 0]

\* the day before a date (date - timedelta(days=1))
PrevDay(t) ==
    IF t.day > 1 THEN [t EXCEPT !.day = t.day - 1]
    ELSE IF t.month > 1
         THEN [t EXCEPT !.month = t.month - 1,
                        !.day = DaysInMonth(t.year, t.month - 1)]
         ELSE [t EXCEPT !.year = t.year - 1, !.month = 12, !.day = 31]

\* t - timedelta(days=n), n >= 0: the time of day is kept
RECURSIVE MinusDays(_, _)
MinusDays(t, n) == IF n <= 0 THEN t ELSE MinusDays(PrevDay(t), n - 1)

(***************************************************************************)
(* Characters and strings                                                  *)
(***************************************************************************)
DigitChars == <<"0", "1", "2", "3", "4", "5", "6", "7", "8", "9">>

DigitVal(c) == (CHOOSE n \in 1..10 : DigitChars[n] = c) - 1

\* the decimal digits of n >= 0, no padding ("%d" % n)
RECURSIVE Decimal(_)
Decimal(n) ==
    IF n < 10 THEN <<DigitChars[n + 1]>>
    ELSE Decimal(n \div 10) \o <<DigitChars[(n % 10) + 1]>>

\* "%02d" % n
RECURSIVE ZeroPad(_, _)
ZeroPad(s, width) == IF Len(s) >= width THEN s ELSE ZeroPad(<<"0">> \o s, width)

\* int(s) for a string of digits
RECURSIVE IntOf(_)
IntOf(s) ==
    IF Len(s) = 0 THEN 0
    ELSE 10 * IntOf(SubSeq(s, 1, Len(s) - 1)) + DigitVal(s[Len(s)])

\* s[n:]
DropFirst(s, n) == SubSeq(s, n + 1, Len(s))

\* s.split(".", 1)[0]: the part of s before its first "." (all of s without one)
RECURSIVE BeforeFirstDotFrom(_, _)
BeforeFirstDotFrom(s, i) ==
    IF i > Len(s) \/ s[i] = "." THEN SubSeq(s, 1, i - 1)
    ELSE BeforeFirstDotFrom(s, i + 1)

BeforeFirstDot(s) == BeforeFirstDotFrom(s, 1)

(***************************************************************************)
(* DATETIME_FORMAT = "_%Y-%m-%d_%H-%M" as the list of its directives       *)
(***************************************************************************)
Lit(c) == [kind |-> "lit", ch |-> c]
Dir(d) == [kind |-> "dir", ch |-> d]

DATETIME_FORMAT ==
    <<Lit("_"), Dir("Y"), Lit("-"), Dir("m"), Lit("-"), Dir("d"),
      Lit("_"), Dir("H"), Lit("-"), Dir("M")>>

\* strftime of one directive: %Y is the year in decimal, the others are
\* zero-padded to two digits
FormatDirective(d, t) ==
    CASE d = "Y" -> Decimal(t.year)
      [] d = "m" -> ZeroPad(Decimal(t.month), 2)
      [] d = "d" -> ZeroPad(Decimal(t.day), 2)
      [] d = "H" -> ZeroPad(Decimal(t.hour), 2)
      [] d = "M" -> ZeroPad(Decimal(t.minute), 2)

RECURSIVE StrftimeFrom(_, _, _)
StrftimeFrom(t, fmt, k) ==
    IF k > Len(fmt) THEN <<>>
    ELSE (IF fmt[k].kind = "lit" THEN <<fmt[k].ch>>
          ELSE FormatDirective(fmt[k].ch, t)) \o StrftimeFrom(t, fmt, k + 1)

\* t.strftime(fmt)
Strftime(t, fmt) == StrftimeFrom(t, fmt, 1)


(***************************************************************************)
(* strptime: each directive is a regular expression, an ordered list of    *)
(* alternatives, each alternative a list of character classes.  The format *)
(* is matched at the start of the string by backtracking in that order.    *)
(***************************************************************************)
D09 == {"0", "1", "2", "3", "4", "5", "6", "7", "8", "9"}
D19 == D09 \ {"0"}

DirectiveRegex(d) ==
    CASE d = "Y" -> << <<D09, D09, D09, D09>> >>
      [] d = "m" -> << <<{"1"}, {"0", "1", "2"}>>, <<{"0"}, D19>>, <<D19>> >>
      [] d = "d" -> << <<{"3"}, {"0", "1"}>>, <<{"1", "2"}, D09>>, <<{"0"}, D19>>,
                       <<D19>>, <<{" "}, D19>> >>
      [] d = "H" -> << <<{"2"}, {"0", "1", "2", "3"}>>, <<{"0", "1"}, D09>>, <<D09>> >>
      [] d = "M" -> << <<{"0", "1", "2", "3", "4", "5"}, D09>>, <<D09>> >>

Directives == {"Y", "m", "d", "H", "M"}

NoMatch == [ok |-> FALSE, end |-> 0, found |-> [d \in Directives |-> <<>>]]

AltMatches(alt, s, pos) ==
    /\ pos + Len(alt) - 1 <= Len(s)
    /\ \A i \in 1..Len(alt) : s[pos + i - 1] \in alt[i]

\* the match of fmt[k..] at s[pos..]: end is the index of the last character
\* the match consumed
RECURSIVE MatchFrom(_, _, _, _)
RECURSIVE TryAlternatives(_, _, _, _, _)
MatchFrom(s, pos, fmt, k) ==
    IF k > Len(fmt)
    THEN [ok |-> TRUE, end |-> pos - 1, found |-> [d \in Directives |-> <<>>]]
    ELSE IF fmt[k].kind = "lit"
         THEN (IF pos <= Len(s) /\ s[pos] = fmt[k].ch
               THEN MatchFrom(s, pos + 1, fmt, k + 1)
               ELSE NoMatch)
         ELSE TryAlternatives(s, pos, fmt, k, 1)

TryAlternatives(s, pos, fmt, k, a) ==
    LET alts == DirectiveRegex(fmt[k].ch)
    IN  IF a > Len(alts) THEN NoMatch
        ELSE IF AltMatches(alts[a], s, pos)
             THEN LET rest == MatchFrom(s, pos + Len(alts[a]), fmt, k + 1)
                  IN  IF rest.ok
                      THEN [rest EXCEPT !.found[fmt[k].ch] =
                                SubSeq(s, pos, pos + Len(alts[a]) - 1)]
                      ELSE TryAlternatives(s, pos, fmt, k, a + 1)
             ELSE TryAlternatives(s, pos, fmt, k, a + 1)

\* int() of a matched field; int(" 5") = 5
FieldInt(s) == IF Len(s) > 0 /\ s[1] = " " THEN IntOf(Tail(s)) ELSE IntOf(s)

\* The messages of the ValueErrors strptime raises
\* (as lists of words, so that "x in e.message" is a search)
MsgNoMatch == <<"time", "data", "does", "not", "match", "format">>
MsgUnconverted == <<"unconverted", "data", "remains">>
MsgOutOfRange == <<"day", "is", "out", "of", "range", "for", "month">>

Raised(type, msg) == [raised |-> TRUE, type |-> type, message |-> msg]
NoError == [raised |-> FALSE, type |-> "", message |-> <<>>]
Returned(v) == [raised |-> FALSE, value |-> v]

\* datetime.strptime(s, fmt): the datetime, or the ValueError raised
Strptime(s, fmt) ==
    LET m == MatchFrom(s, 1, fmt, 1)
    IN  IF ~m.ok THEN Raised("ValueError", MsgNoMatch)
        ELSE IF m.end # Len(s) THEN Raised("ValueError", MsgUnconverted)
        ELSE LET y == FieldInt(m.found["Y"])
                 mo == FieldInt(m.found["m"])
                 d == FieldInt(m.found["d"])
             IN  IF ~ValidDate(y, mo, d) THEN Raised("ValueError", MsgOutOfRange)
                 ELSE Returned(DateTime(y, mo, d, FieldInt(m.found["H"]),
                                        FieldInt(m.found["M"]), 0))

(***************************************************************************)
(* The timestamp codec of backups.py                                       *)
(***************************************************************************)
\* time_string(), with now = datetime.utcnow()
time_string(now) == Strftime(now, DATETIME_FORMAT)

\* s.rsplit(".", 1)[0]: the part of s before its last "."
RECURSIVE BeforeLastDotFrom(_, _)
BeforeLastDotFrom(s, i) ==
    IF i < 1 THEN s
    ELSE IF s[i] = "." THEN SubSeq(s, 1, i - 1)
    ELSE BeforeLastDotFrom(s, i - 1)

\* (the time tag cut at the last "." of the name in place of the first)
get_backup_file_time_tag_rsplit(file_name, custom_prefix) ==
    LET name_string == DropFirst(file_name, Len(custom_prefix))
        time_tag == BeforeLastDotFrom(name_string, Len(name_string))
    IN  Strptime(time_tag, DATETIME_FORMAT)

\* get_backup_file_time_tag(file_name, custom_prefix)
get_backup_file_time_tag(file_name, custom_prefix) ==
    LET name_string == DropFirst(file_name, Len(custom_prefix))
        time_tag == BeforeFirstDot(name_string)
    IN  Strptime(time_tag, DATETIME_FORMAT)

(***************************************************************************)
(* State                                                                   *)
(***************************************************************************)
VARIABLES
    pc,      \* where the running call is: a stage of it, or how it ended
    args,    \* the arguments of the running call
    clock,   \* datetime.utcnow()
    fs,      \* the file system: the directories the calls work on
    calls,   \* the external operations invoked so far, in order
    err,     \* the exception the call ended with, or None
    local,   \* the local variables of the running call
    hist,    \* what the call found when it started and when it read the clock
    python   \* the major version of the interpreter

vars == <<pc, args, clock, fs, calls, err, local, hist, python>>

\* bool(x) of an optional argument: None, "" and 0 are false
TruthyStr(x) == x.some /\ x.val # <<>>
TruthyInt(x) == x.some /\ x.val # 0
TruthyTok(x) == x.some /\ x.val # ""

PythonVersions == {2, 3}

(***************************************************************************)
(* The codec on its own: time_string() names a file, and                   *)
(* get_backup_file_time_tag reads the name back                            *)
(***************************************************************************)
PrefixBackup == <<"b", "a", "c", "k", "u", "p">>
ExtTbz == <<".", "t", "b", "z">>

CodecPrefixes == {PrefixBackup, <<>>, <<"d", "b", ".", "v", "2", "_">>}
CodecExts == {ExtTbz, <<".", "t", "a", "r", ".", "b", "z", "2">>}

CodecInstants ==
    {DateTime(y, m, d, H, M, S) :
        y \in {1999, 2024}, m \in {1, 2, 9, 10, 12}, d \in {1, 9, 10, 29, 31},
        H \in {0, 9, 10, 23}, M \in {0, 9, 59}, S \in {0, 30}}

NoFs == [local |-> {}, attached |-> [exists |-> FALSE, files |-> {}],
         dump |-> [exists |-> FALSE, files |-> {}], tbz |-> FALSE]

InitCodec ==
    /\ pc = "start"
    /\ clock \in {t \in CodecInstants : ValidDate(t.year, t.month, t.day)}
    /\ \E p \in CodecPrefixes, e \in CodecExts :
          args = [custom_prefix |-> p, ext |-> e]
    /\ local = [time_string |-> <<>>, file_name |-> <<>>, time_tag |-> NoError]
    /\ fs = NoFs
    /\ calls = <<>>
    /\ err = NoError
    /\ hist = None
    /\ python \in PythonVersions

\* time_string()
CallTimeString ==
    /\ pc = "start"
    /\ local' = [local EXCEPT !.time_string = time_string(clock)]
    /\ pc' = "formatted"
    /\ UNCHANGED <<args, clock, fs, calls, err, hist, python>>

\* custom_prefix + time_string(), to which the archiver adds its extension
NameFile ==
    /\ pc = "formatted"
    /\ local' = [local EXCEPT !.file_name =
                     args.custom_prefix \o local.time_string \o args.ext]
    /\ pc' = "named"
    /\ UNCHANGED <<args, clock, fs, calls, err, hist, python>>

\* get_backup_file_time_tag(file_name, custom_prefix)
CallGetTimeTag ==
    /\ pc = "named"
    /\ local' = [local EXCEPT !.time_tag =
                     get_backup_file_time_tag(local.file_name, args.custom_prefix)]
    /\ pc' = "parsed"
    /\ UNCHANGED <<args, clock, fs, calls, err, hist, python>>

NextCodec == CallTimeString \/ NameFile \/ CallGetTimeTag

SpecCodec == InitCodec /\ [][NextCodec]_vars

\* C9: for every instant t, prefix and extension, reading back the name
\* prefix + time_string(t) + ext with get_backup_file_time_tag returns t at
\* minute resolution.
C9_RoundTrip ==
    pc = "parsed" => local.time_tag = Returned(TruncateToMinute(clock))

\* a round trip of 29 February, with a prefix and an extension that both
\* hold a "."
C9_Witness ==
    /\ pc = "parsed"
    /\ clock.month = 2 /\ clock.day = 29 /\ clock.second = 30
    /\ Len(args.custom_prefix) = 6 /\ args.custom_prefix # PrefixBackup
    /\ args.ext # ExtTbz
    /\ ~local.time_tag.raised

(***************************************************************************)
(* purge_old_files                                                         *)
(***************************************************************************)
\* needle in hay
Contains(hay, needle) ==
    \E i \in 1..(Len(hay) - Len(needle) + 1) :
        SubSeq(hay, i, i + Len(needle) - 1) = needle

DoesNotMatchFormat == <<"does", "not", "match", "format">>

\* The body of the for loop from entry i of the listing on.  removed: the
\* names remove() was called on so far; warnings: the warnings printed so
\* far; denied: the names whose removal the operating system refuses.
RECURSIVE PurgeFrom(_, _, _, _, _, _, _, _)
PurgeFrom(listing, i, date_time, custom_prefix, version, denied, removed, warnings) ==
    IF i > Len(listing)
    THEN [removed |-> removed, warnings |-> warnings, err |-> NoError]
    ELSE LET file_name == listing[i]
             tag == get_backup_file_time_tag(file_name, custom_prefix)
         IN  IF tag.raised
             THEN (IF version = 3
                   \* ValueError has no attribute "message" on Python 3
                   THEN [removed |-> removed, warnings |-> warnings,
                         err |-> Raised("AttributeError", <<"message">>)]
                   ELSE IF Contains(tag.message, DoesNotMatchFormat)
                   THEN PurgeFrom(listing, i + 1, date_time, custom_prefix,
                                  version, denied, removed, warnings + 1)
                   ELSE [removed |-> removed, warnings |-> warnings, err |-> tag])
             ELSE IF Before(tag.value, date_time)
             THEN (IF file_name \in denied
                   THEN [removed |-> removed, warnings |-> warnings,
                         err |-> Raised("OSError", <<"remove">>)]
                   ELSE PurgeFrom(listing, i + 1, date_time, custom_prefix,
                                  version, denied, removed \cup {file_name},
                                  warnings))
             ELSE PurgeFrom(listing, i + 1, date_time, custom_prefix,
                            version, denied, removed, warnings)

\* purge_old_files(date_time, directory_path, custom_prefix), where listing
\* is what listdir(directory_path) returned
purge_old_files(date_time, listing, custom_prefix, version, denied) ==
    PurgeFrom(listing, 1, date_time, custom_prefix, version, denied, {}, 0)

\* listdir: the entries of a directory in arbitrary order
Listings(dir) ==
    {l \in [1..Cardinality(dir) -> dir] :
        \A i, j \in 1..Cardinality(dir) : l[i] = l[j] => i = j}

\* at most one entry cannot be removed
Denials(dir) == {{}} \cup {{f} : f \in dir}

(***************************************************************************)
(* purge_old_files on its own, on a directory of backups and other files   *)
(***************************************************************************)
ArtifactName(prefix, t, ext) == prefix \o Strftime(t, DATETIME_FORMAT) \o ext

PurgeCutoffs == {DateTime(2024, 1, 1, 0, 0, 0), DateTime(2024, 3, 1, 9, 5, 0)}

PurgeInstants ==
    {DateTime(2023, 12, 31, 23, 59, 0), DateTime(2024, 1, 1, 0, 0, 0),
     DateTime(2024, 2, 29, 9, 5, 0), DateTime(2024, 3, 1, 9, 6, 0)}

\* backup_bad.tbz
NameBad == PrefixBackup \o <<"_", "b", "a", "d", ".", "t", "b", "z">>
\* backup_2023-12-01_00-00-old.tbz
NameTrailing == PrefixBackup \o <<"_", "2", "0", "2", "3", "-", "1", "2", "-", "0", "1", "_", "0", "0", "-", "0", "0", "-", "o", "l", "d", ".", "t", "b", "z">>
\* backup_2023-02-30_00-00.tbz
NameNoSuchDay == PrefixBackup \o <<"_", "2", "0", "2", "3", "-", "0", "2", "-", "3", "0", "_", "0", "0", "-", "0", "0", ".", "t", "b", "z">>
\* notes.txt
NameNotes == <<"n", "o", "t", "e", "s", ".", "t", "x", "t">>

OtherNames == {NameBad, NameTrailing, NameNoSuchDay, NameNotes}

PurgePool ==
    {ArtifactName(PrefixBackup, t, ExtTbz) : t \in PurgeInstants} \cup OtherNames

MaxDirSize == 3

InitPurge ==
    /\ pc = "start"
    /\ \E dir \in SUBSET PurgePool :
          /\ Cardinality(dir) <= MaxDirSize
          /\ fs = [NoFs EXCEPT !.local = dir]
          /\ hist = [dir |-> dir]
    /\ \E c \in PurgeCutoffs :
          args = [date_time |-> c, custom_prefix |-> PrefixBackup]
    /\ python \in PythonVersions
    /\ clock = DateTime(2024, 3, 2, 0, 0, 0)
    /\ local = [removed |-> {}, warnings |-> 0]
    /\ calls = <<>>
    /\ err = NoError

CallPurgeOldFiles ==
    /\ pc = "start"
    /\ \E listing \in Listings(fs.local), denied \in Denials(fs.local) :
          \E r \in {purge_old_files(args.date_time, listing, args.custom_prefix,
                                   python, denied)} :
              /\ fs' = [fs EXCEPT !.local = fs.local \ r.removed]
              /\ local' = [removed |-> r.removed, warnings |-> r.warnings]
              /\ err' = r.err
              /\ pc' = IF ~r.err.raised THEN "returned" ELSE "raised"
    /\ UNCHANGED <<args, clock, calls, hist, python>>

NextPurge == CallPurgeOldFiles

SpecPurge == InitPurge /\ [][NextPurge]_vars

\* the instant a name of the form prefix + format(t) + ext was made from
IsArtifactOf(name, prefix, t) == name = ArtifactName(prefix, t, ExtTbz)
WellFormed(name, prefix) == \E t \in PurgeInstants : IsArtifactOf(name, prefix, t)
OlderThan(name, prefix, c) ==
    \E t \in PurgeInstants : IsArtifactOf(name, prefix, t) /\ Before(t, c)

PurgeEnded == pc \in {"returned", "raised"}
RemoveRefused == err.raised /\ err.type = "OSError"

\* C2: after purge_old_files(c, dir, prefix), on a directory of names
\* prefix + format(t_i) + ext and malformed names, the deleted files are
\* exactly the entries with t_i < c; the entries with t_i >= c and the
\* malformed names are still there.
C2_PurgeExact ==
    (PurgeEnded /\ ~RemoveRefused) =>
        fs.local = {f \in hist.dir : ~OlderThan(f, args.custom_prefix, args.date_time)}

\* C3: a name that does not match the timestamp pattern costs a warning and
\* nothing else: the call returns normally, with one warning for each such
\* name, and every well-formed entry older than the cutoff is deleted.
C3_SkipAndContinue ==
    (PurgeEnded /\ ~RemoveRefused) =>
        /\ pc = "returned"
        /\ local.warnings =
               Cardinality({f \in hist.dir : ~WellFormed(f, args.custom_prefix)})
        /\ \A f \in hist.dir :
               OlderThan(f, args.custom_prefix, args.date_time) => f \notin fs.local

(***************************************************************************)
(* Paths, and the external operations a call invokes                       *)
(***************************************************************************)
\* local_backup_directory_path and attached_directory_path, each ending
\* with "/" as the concatenations of backup() need them to
LocalPath == <<"/", "b", "/">>
AttachedPath == <<"/", "m", "/">>

\* path.split("/")[-1]
RECURSIVE AfterLastSlash(_)
AfterLastSlash(p) ==
    IF Len(p) = 0 \/ p[Len(p)] = "/" THEN <<>>
    ELSE AfterLastSlash(SubSeq(p, 1, Len(p) - 1)) \o <<p[Len(p)]>>

\* the entry of the directory dir_path that the path p names
EntryOf(dir_path, p) == DropFirst(p, Len(dir_path))

\* one external operation, as a test double would record it
Op(stage, op, arg, ok) == [stage |-> stage, op |-> op, arg |-> arg, ok |-> ok]

CommandFailed == Raised("Exception", <<"command", "failed">>)
OSError(what) == Raised("OSError", <<what>>)

\* what mongodump and the archive work on
StaleDump == {"stale.bson"}
DumpOutput == {"app.bson"}

Absent == [exists |-> FALSE, files |-> {}]

(***************************************************************************)
(* mongodump                                                               *)
(***************************************************************************)
\* (the directory is left as it is)
ClearDumpDirectory_kept(dir, rmtree_ok) == dir

\* lines 145-147: if the directory exists, rmtree it.  rmtree_ok: whether
\* the operating system lets rmtree succeed.
ClearDumpDirectory(dir, rmtree_ok) ==
    IF dir.exists /\ rmtree_ok THEN Absent ELSE dir

\* lines 148-159: the command line, as its words
DumpCommand(a) ==
    (IF a.silent
     THEN <<"mongodump", "--quiet", "-u", a.user, "-p", a.password, "-o", "dump_dir">>
     ELSE <<"mongodump", "-u", a.user, "-p", a.password, "-o", "dump_dir">>)
    \o (IF TruthyTok(a.host) THEN <<"--host", a.host.val>> ELSE <<>>)
    \o (IF TruthyTok(a.port) THEN <<"--port", a.port.val>> ELSE <<>>)
    \o (IF TruthyTok(a.database) THEN <<"--db", a.database.val>> ELSE <<>>)

\* mongodump(...) on the directory dir within stage; env says how rmtree
\* and the command end.  A command that fails may have created its output
\* directory ("partial") or not ("nothing").
mongodump(stage, dir, a, env) ==
    LET cleared == ClearDumpDirectory(dir, env.rmtree_ok)
        rm == IF dir.exists
              THEN <<Op(stage, "rmtree", <<"dump_dir">>, env.rmtree_ok)>>
              ELSE <<>>
    IN  IF dir.exists /\ ~env.rmtree_ok
        THEN [dir |-> dir, calls |-> rm, err |-> OSError("rmtree")]
        ELSE [dir |-> CASE env.call = "ok" ->
                               [exists |-> TRUE, files |-> cleared.files \cup DumpOutput]
                        [] env.call = "partial" ->
                               [exists |-> TRUE, files |-> cleared.files]
                        [] OTHER -> cleared,
              calls |-> rm \o <<Op(stage, "call", DumpCommand(a), env.call = "ok")>>,
              err |-> IF env.call = "ok" THEN NoError ELSE CommandFailed]

DumpEnvs == [rmtree_ok : BOOLEAN, call : {"ok", "partial", "nothing"}]

Connections ==
    {[user |-> "u", password |-> "p", host |-> None, port |-> None,
      database |-> None, silent |-> FALSE],
     [user |-> "u", password |-> "p", host |-> Some("db1"), port |-> Some("27017"),
      database |-> Some("app"), silent |-> TRUE],
     [user |-> "u", password |-> "p", host |-> Some(""), port |-> None,
      database |-> Some("app"), silent |-> FALSE]}

(***************************************************************************)
(* The collaborators of mongobackuptools.shell and mongobackuptools.s3     *)
(***************************************************************************)
\* tarbz(source, output_path): archives source into the file
\* output_path + ".tbz" and returns that path
tarbz(stage, local_dir, output_path, ok) ==
    LET file == output_path \o ExtTbz
    IN  [local |-> IF ok THEN local_dir \cup {EntryOf(LocalPath, file)} ELSE local_dir,
         ret |-> file,
         calls |-> <<Op(stage, "tarbz", <<"dump_dir">>, ok)>>,
         err |-> IF ok THEN NoError ELSE CommandFailed]

\* s3_upload(file, bucket, key id, secret key)
s3_upload(stage, bucket, ok) ==
    [calls |-> <<Op(stage, "s3_upload", <<bucket>>, ok)>>,
     err |-> IF ok THEN NoError ELSE Raised("Exception", <<"upload", "failed">>)]

(***************************************************************************)
(* Time passing while a call waits for an external process                 *)
(***************************************************************************)
NextDay(t) ==
    IF t.day < DaysInMonth(t.year, t.month) THEN [t EXCEPT !.day = t.day + 1]
    ELSE IF t.month < 12 THEN [t EXCEPT !.month = t.month + 1, !.day = 1]
    ELSE [t EXCEPT !.year = t.year + 1, !.month = 1, !.day = 1]

RECURSIVE PlusDays(_, _)
PlusDays(t, n) == IF n <= 0 THEN t ELSE PlusDays(NextDay(t), n - 1)

SecondsPerDay == 24 * 3600

SecondOfDay(t) == t.hour * 3600 + t.minute * 60 + t.second

AddSeconds(t, n) ==
    LET total == SecondOfDay(t) + n
        rem == total % SecondsPerDay
    IN  [PlusDays(t, total \div SecondsPerDay) EXCEPT
            !.hour = rem \div 3600,
            !.minute = (rem % 3600) \div 60,
            !.second = rem % 60]

\* The clock is read when the file is named (line 74) and when each purge
\* date is computed (lines 86 and 91).  Between the first two lie the dump,
\* the archive, the copy and the upload, whose time is counted with the
\* dump; between the last two lies the local purge.
DumpDurations == {0, 30, SecondsPerDay - 30, SecondsPerDay + 30}
PurgeDurations == {0, 30}

(***************************************************************************)
(* backup                                                                  *)
(***************************************************************************)
\* (the exception is swallowed and the run goes on)
After_swallowed(next, e) == next

\* An exception raised in a stage propagates out of backup(): no stage
\* catches it.
After(next, e) == IF e.raised THEN "failed" ELSE next

\* path.exists(p) / listdir(p) for the directories of the model
DirExists(f, p) == p = AttachedPath /\ f.attached.exists

\* (the attached directory is not looked at)
AttachedMissing_unchecked(f, a) == FALSE

\* line 67-68
AttachedMissing(f, a) ==
    TruthyStr(a.attached_directory_path) /\ ~DirExists(f, a.attached_directory_path.val)

\* line 79
ShouldReplicate(a) == TruthyStr(a.attached_directory_path)
\* line 82
ShouldUpload(a) == TruthyTok(a.s3_bucket)
\* line 85
ShouldPurgeLocal(a) == TruthyInt(a.purge_local)
\* (purge_attached alone decides)
ShouldPurgeAttached_any_path(a) == TruthyInt(a.purge_attached)

\* line 90
ShouldPurgeAttached(a) ==
    TruthyInt(a.purge_attached) /\ TruthyStr(a.attached_directory_path)

\* lines 86-87 and 91-92
PurgeDate(now, days) == MinusDays(TruncateToMinute(now), days)

BackupArgs ==
    [fn : {"backup"},
     custom_prefix : {PrefixBackup},
     attached_directory_path : {None, Some(<<>>), Some(AttachedPath)},
     s3_bucket : {None, Some("bucket")},
     purge_local : {None, Some(0), Some(1), Some(2)},
     purge_attached : {None, Some(1)},
     cleanup : BOOLEAN,
     conn : {c \in Connections : c.silent}]

StartInstants == {DateTime(2024, 2, 28, 23, 59, 30)}

\* what earlier runs and other programs left in the backup directories
OldInstants == {DateTime(2024, 2, 27, 23, 59, 0)}
OldArtifacts == {ArtifactName(PrefixBackup, t, ExtTbz) : t \in OldInstants}
LocalPool == OldArtifacts \cup {NameBad, NameTrailing}

MaxOldFiles == 2

AttachedStates ==
    {Absent, [exists |-> TRUE, files |-> OldArtifacts \cup {NameBad}]}

NoTimes == [named_at |-> None, purge_local_at |-> None, purge_attached_at |-> None]

InitBackup ==
    /\ pc = "idle"
    /\ args = [fn |-> "none"]
    /\ clock \in StartInstants
    /\ \E l \in SUBSET LocalPool, att \in AttachedStates,
          d \in {Absent, [exists |-> TRUE, files |-> StaleDump]} :
          /\ Cardinality(l) <= MaxOldFiles
          /\ fs = [local |-> l, attached |-> att, dump |-> d, tbz |-> FALSE]
          /\ hist = [fs0 |-> [local |-> l, attached |-> att, dump |-> d, tbz |-> FALSE],
                     times |-> NoTimes]
    /\ calls = <<>>
    /\ err = NoError
    /\ local = [full_file_name_path |-> <<>>, local_backup_file |-> <<>>]
    /\ python \in PythonVersions

\* backup(...) is called
CallBackup ==
    /\ pc = "idle"
    /\ \E a \in BackupArgs : args' = a
    /\ pc' = "validate"
    /\ UNCHANGED <<clock, fs, calls, err, local, hist, python>>

\* lines 67-74: the attached directory must exist; the file is named
Validate ==
    /\ pc = "validate"
    /\ IF AttachedMissing(fs, args)
       THEN /\ err' = Raised("Exception", <<"attached", "storage">>)
            /\ pc' = After("dump", err')
            /\ UNCHANGED <<local, hist>>
       ELSE /\ local' = [local EXCEPT !.full_file_name_path =
                            LocalPath \o args.custom_prefix \o time_string(clock)]
            /\ hist' = [hist EXCEPT !.times.named_at = Some(clock)]
            /\ pc' = "dump"
            /\ UNCHANGED err
    /\ UNCHANGED <<args, clock, fs, calls, python>>

\* line 75
Dump ==
    /\ pc = "dump"
    /\ \E env \in DumpEnvs :
          \E r \in {mongodump("dump", fs.dump, args.conn, env)} :
              /\ fs' = [fs EXCEPT !.dump = r.dir]
              /\ calls' = calls \o r.calls
              /\ err' = r.err
              /\ pc' = After("archive", r.err)
    /\ \E d \in DumpDurations : clock' = AddSeconds(clock, d)
    /\ UNCHANGED <<args, local, hist, python>>

\* line 77
Archive ==
    /\ pc = "archive"
    /\ \E ok \in BOOLEAN :
          \E r \in {tarbz("archive", fs.local, local.full_file_name_path, ok)} :
              /\ fs' = [fs EXCEPT !.local = r.local]
              /\ calls' = calls \o r.calls
              /\ err' = r.err
              /\ local' = IF ok THEN [local EXCEPT !.local_backup_file = r.ret]
                          ELSE local
              /\ pc' = After("replicate", r.err)
    /\ UNCHANGED <<args, clock, hist, python>>

\* lines 79-80
Replicate ==
    /\ pc = "replicate"
    /\ IF ShouldReplicate(args)
       THEN \E os_ok \in BOOLEAN :
               LET dst == args.attached_directory_path.val
                              \o AfterLastSlash(local.local_backup_file)
                   ok == os_ok /\ DirExists(fs, args.attached_directory_path.val)
               IN  /\ fs' = IF ok
                            THEN [fs EXCEPT !.attached.files =
                                     @ \cup {EntryOf(AttachedPath, dst)}]
                            ELSE fs
                   /\ calls' = calls \o <<Op("replicate", "copy", <<"attached">>, ok)>>
                   /\ err' = IF ok THEN NoError ELSE OSError("copy")
                   /\ pc' = After("upload", err')
       ELSE /\ pc' = "upload"
            /\ UNCHANGED <<fs, calls, err>>
    /\ UNCHANGED <<args, clock, local, hist, python>>

\* lines 82-83
Upload ==
    /\ pc = "upload"
    /\ IF ShouldUpload(args)
       THEN \E ok \in BOOLEAN :
               \E r \in {s3_upload("upload", args.s3_bucket.val, ok)} :
                   /\ calls' = calls \o r.calls
                   /\ err' = r.err
                   /\ pc' = After("purge_local", r.err)
       ELSE /\ pc' = "purge_local"
            /\ UNCHANGED <<calls, err>>
    /\ UNCHANGED <<args, clock, fs, local, hist, python>>

\* lines 85-88
PurgeLocal ==
    /\ pc = "purge_local"
    /\ IF ShouldPurgeLocal(args)
       THEN \E listing \in Listings(fs.local), denied \in Denials(fs.local) :
               \E r \in {purge_old_files(PurgeDate(clock, args.purge_local.val),
                                        listing, args.custom_prefix, python, denied)} :
                   /\ fs' = [fs EXCEPT !.local = @ \ r.removed]
                   /\ calls' = calls \o <<Op("purge_local", "purge_old_files",
                                             <<"local">>, ~r.err.raised)>>
                   /\ hist' = [hist EXCEPT !.times.purge_local_at = Some(clock)]
                   /\ err' = r.err
                   /\ pc' = After("purge_attached", r.err)
                   /\ \E d \in PurgeDurations : clock' = AddSeconds(clock, d)
       ELSE /\ pc' = "purge_attached"
            /\ UNCHANGED <<fs, calls, hist, err, clock>>
    /\ UNCHANGED <<args, local, python>>

\* lines 90-93
PurgeAttached ==
    /\ pc = "purge_attached"
    /\ IF ShouldPurgeAttached(args)
       THEN IF /\ args.attached_directory_path.some
               /\ DirExists(fs, args.attached_directory_path.val)
            THEN \E listing \in Listings(fs.attached.files),
                    denied \in Denials(fs.attached.files) :
                    \E r \in {purge_old_files(
                                 PurgeDate(clock, args.purge_attached.val),
                                 listing, args.custom_prefix, python, denied)} :
                        /\ fs' = [fs EXCEPT !.attached.files = @ \ r.removed]
                        /\ calls' = calls \o <<Op("purge_attached", "purge_old_files",
                                                  <<"attached">>, ~r.err.raised)>>
                        /\ hist' = [hist EXCEPT !.times.purge_attached_at = Some(clock)]
                        /\ err' = r.err
                        /\ pc' = After("cleanup", r.err)
            \* listdir of None, of "" or of a directory that is not there
            ELSE /\ calls' = calls \o <<Op("purge_attached", "purge_old_files",
                                           <<"attached">>, FALSE)>>
                 /\ err' = OSError("listdir")
                 /\ pc' = After("cleanup", err')
                 /\ UNCHANGED <<fs, hist>>
       ELSE /\ pc' = "cleanup"
            /\ UNCHANGED <<fs, calls, hist, err>>
    /\ UNCHANGED <<args, clock, local, python>>

\* lines 95-96
Cleanup ==
    /\ pc = "cleanup"
    /\ IF args.cleanup
       THEN \E os_ok \in BOOLEAN :
               LET ok == os_ok /\ fs.dump.exists
               IN  /\ fs' = IF ok THEN [fs EXCEPT !.dump = Absent] ELSE fs
                   /\ calls' = calls \o <<Op("cleanup", "rmtree", <<"dump_dir">>, ok)>>
                   /\ err' = IF ok THEN NoError ELSE OSError("rmtree")
                   /\ pc' = After("done", err')
       ELSE /\ pc' = "done"
            /\ UNCHANGED <<fs, calls, err>>
    /\ UNCHANGED <<args, clock, local, hist, python>>

\* mongodump(...) is called on its own
CallMongodump ==
    /\ pc = "idle"
    /\ \E c \in Connections, env \in DumpEnvs :
          \E r \in {mongodump("mongodump", fs.dump, c, env)} :
              /\ args' = [fn |-> "mongodump", conn |-> c]
              /\ fs' = [fs EXCEPT !.dump = r.dir]
              /\ calls' = calls \o r.calls
              /\ err' = r.err
              /\ pc' = After("done", r.err)
    /\ UNCHANGED <<clock, local, hist, python>>

BackupStages ==
    <<"validate", "dump", "archive", "replicate", "upload", "purge_local",
      "purge_attached", "cleanup">>

NextBackup ==
    \/ CallBackup
    \/ Validate
    \/ Dump
    \/ Archive
    \/ Replicate
    \/ Upload
    \/ PurgeLocal
    \/ PurgeAttached
    \/ Cleanup
    \/ CallMongodump

SpecBackup == InitBackup /\ [][NextBackup]_vars

(***************************************************************************)
(* Properties of backup and mongodump                                      *)
(***************************************************************************)
IsBackup == args.fn = "backup"

\* an attached directory was asked for
AttachedConfigured ==
    /\ args.attached_directory_path.some
    /\ args.attached_directory_path.val # <<>>

StageRank(stage) == CHOOSE k \in 1..Len(BackupStages) : BackupStages[k] = stage

Invoked(stage, op) == \E i \in 1..Len(calls) : calls[i].stage = stage /\ calls[i].op = op
Succeeded(stage, op) ==
    \E i \in 1..Len(calls) : calls[i].stage = stage /\ calls[i].op = op /\ calls[i].ok

\* the name of the file this run's archive stage produced
Artifact == AfterLastSlash(local.local_backup_file)

\* C1: when attached_directory_path is given and the directory does not
\* exist, backup() raises at once: no external operation has been invoked
\* (no dump, no archive, no copy, no upload, no purge) and the file system,
\* the scratch dump directory included, is as the call found it.
C1_FailFast ==
    (/\ IsBackup
     /\ AttachedConfigured
     /\ ~hist.fs0.attached.exists)
    => /\ pc \in {"validate", "failed"}
       /\ pc = "failed" => err.raised
       /\ calls = <<>>
       /\ fs = hist.fs0

C1_Witness ==
    /\ IsBackup
    /\ AttachedConfigured
    /\ ~hist.fs0.attached.exists
    /\ pc = "failed"
    /\ fs.dump.exists
    /\ args.purge_local = Some(1)

\* C5: the external operations of a backup() run happen in the order of
\* the stages, each at most once, each only after all earlier ones have
\* succeeded and none of a stage the run has not reached; a run that is
\* over without error has run every stage its arguments ask for; when an
\* operation fails the run is over with that error, nothing follows, the
\* scratch directory is not cleaned up and what the earlier stages made is
\* still there.
C5_PipelineOrder ==
    IsBackup =>
        /\ \A i, j \in 1..Len(calls) :
              i < j => /\ StageRank(calls[i].stage) <= StageRank(calls[j].stage)
                       /\ <<calls[i].stage, calls[i].op>> # <<calls[j].stage, calls[j].op>>
        /\ \A i \in 1..(Len(calls) - 1) : calls[i].ok
        /\ \A i \in 1..Len(calls) :
              pc \in {"validate", "dump", "archive", "replicate", "upload",
                      "purge_local", "purge_attached", "cleanup"}
                  => StageRank(calls[i].stage) < StageRank(pc)
        /\ (pc = "failed") <=> err.raised
        /\ (Len(calls) > 0 /\ ~calls[Len(calls)].ok) => pc = "failed"
        /\ pc = "done" =>
              /\ Succeeded("dump", "call")
              /\ Succeeded("archive", "tarbz")
              /\ AttachedConfigured <=> Succeeded("replicate", "copy")
              /\ (args.s3_bucket.some /\ args.s3_bucket.val # "")
                     <=> Succeeded("upload", "s3_upload")
              /\ (args.purge_local.some /\ args.purge_local.val # 0)
                     <=> Succeeded("purge_local", "purge_old_files")
              /\ (AttachedConfigured /\ args.purge_attached.some
                      /\ args.purge_attached.val # 0)
                     <=> Succeeded("purge_attached", "purge_old_files")
              /\ args.cleanup <=> Succeeded("cleanup", "rmtree")
        /\ pc = "failed" =>
              /\ Succeeded("dump", "call") => fs.dump.exists
              /\ (Succeeded("archive", "tarbz")
                      /\ ~Invoked("purge_local", "purge_old_files"))
                     => Artifact \in fs.local
              /\ (Succeeded("replicate", "copy")
                      /\ ~Invoked("purge_attached", "purge_old_files"))
                     => Artifact \in fs.attached.files

\* the upload fails after the dump, the archive and the copy
C5_Witness ==
    /\ IsBackup
    /\ pc = "failed"
    /\ Len(calls) >= 4
    /\ calls[Len(calls)].op = "s3_upload"
    /\ Artifact \in fs.local
    /\ Artifact \in fs.attached.files
    /\ fs.dump.exists
    /\ args.cleanup

\* C7: whenever mongodump() has invoked the dump command, nothing that was
\* in the output directory before the call is in it now, and if the
\* directory existed it was removed, successfully, just before the command.
C7_DumpClearsDirectory ==
    \A i \in 1..Len(calls) :
        (calls[i].op = "call" /\ calls[i].arg[1] = "mongodump") =>
            /\ fs.dump.files \cap StaleDump = {}
            /\ hist.fs0.dump.exists =>
                  /\ i > 1
                  /\ calls[i - 1].op = "rmtree"
                  /\ calls[i - 1].ok

C7_Witness ==
    /\ hist.fs0.dump.exists
    /\ hist.fs0.dump.files = StaleDump
    /\ args.fn = "mongodump"
    /\ pc = "done"
    /\ fs.dump.files = DumpOutput

\* C8: without an attached directory path (None or ""), whatever
\* purge_attached is, backup() never copies to and never purges the attached
\* directory, which stays as it was; no error comes from these stages, and
\* the local purge and the cleanup run as the other arguments ask.
C8_NoAttachedPath ==
    (IsBackup /\ ~AttachedConfigured) =>
        /\ fs.attached = hist.fs0.attached
        /\ \A i \in 1..Len(calls) : calls[i].stage \notin {"replicate", "purge_attached"}
        /\ ~hist.times.purge_attached_at.some
        /\ pc = "done" =>
              /\ (args.purge_local.some /\ args.purge_local.val # 0)
                     <=> Succeeded("purge_local", "purge_old_files")
              /\ args.cleanup <=> (Succeeded("cleanup", "rmtree") /\ ~fs.dump.exists)

C8_Witness ==
    /\ IsBackup
    /\ ~args.attached_directory_path.some
    /\ args.purge_attached = Some(1)
    /\ args.purge_local = Some(1)
    /\ args.cleanup
    /\ hist.fs0.attached.exists
    /\ hist.fs0.attached.files # {}
    /\ pc = "done"

\* the day number of a date (date.toordinal())
DaysBeforeYear(y) == (y - 1) * 365 + (y - 1) \div 4 - (y - 1) \div 100 + (y - 1) \div 400
RECURSIVE DaysBeforeMonth(_, _)
DaysBeforeMonth(y, m) ==
    IF m <= 1 THEN 0 ELSE DaysBeforeMonth(y, m - 1) + DaysInMonth(y, m - 1)
Ordinal(t) == DaysBeforeYear(t.year) + DaysBeforeMonth(t.year, t.month) + t.day

\* the seconds from instant a to instant b
SecondsBetween(a, b) ==
    (Ordinal(b) - Ordinal(a)) * SecondsPerDay + SecondOfDay(b) - SecondOfDay(a)

\* C10: in a backup() run that completes, if purge_local = N >= 1 and fewer
\* than N days passed between naming the file and computing the local purge
\* date, the file this run made is still in the local directory; likewise
\* for purge_attached and the copy in the attached directory; and whatever
\* is gone from the two directories is a backup of an earlier run.
C10_ArtifactSurvives ==
    (IsBackup /\ pc = "done") =>
        /\ (/\ args.purge_local.some
            /\ args.purge_local.val >= 1
            /\ SecondsBetween(hist.times.named_at.val, hist.times.purge_local_at.val)
                   < args.purge_local.val * SecondsPerDay)
           => Artifact \in fs.local
        /\ (/\ AttachedConfigured
            /\ args.purge_attached.some
            /\ args.purge_attached.val >= 1
            /\ SecondsBetween(hist.times.named_at.val, hist.times.purge_attached_at.val)
                   < args.purge_attached.val * SecondsPerDay)
           => Artifact \in fs.attached.files
        /\ (hist.fs0.local \ fs.local) \subseteq OldArtifacts
        /\ (hist.fs0.attached.files \ fs.attached.files) \subseteq OldArtifacts

\* half a minute less than a day after the file was named, purge_local = 1
\* deletes the backup of an earlier run and keeps the new one
C10_Witness ==
    /\ IsBackup
    /\ pc = "done"
    /\ args.purge_local = Some(1)
    /\ SecondsBetween(hist.times.named_at.val, hist.times.purge_local_at.val)
           = SecondsPerDay - 30
    /\ Artifact \in fs.local
    /\ hist.fs0.local \ fs.local # {}

(***************************************************************************)
(* mongorestore and restore                                                *)
(***************************************************************************)
\* (--drop is appended whatever drop_database is)
RestoreCommand_always_drop(a) ==
    (IF a.silent
     THEN <<"mongorestore", "--quiet", "-u", a.user, "-p", a.password, "restore_dir">>
     ELSE <<"mongorestore", "-v", "-u", a.user, "-p", a.password, "restore_dir">>)
    \o (IF TruthyTok(a.host) THEN <<"--host", a.host.val>> ELSE <<>>)
    \o (IF TruthyTok(a.port) THEN <<"--port", a.port.val>> ELSE <<>>)
    \o <<"--drop">>

\* lines 176-187: the command line, as its words
RestoreCommand(a) ==
    (IF a.silent
     THEN <<"mongorestore", "--quiet", "-u", a.user, "-p", a.password, "restore_dir">>
     ELSE <<"mongorestore", "-v", "-u", a.user, "-p", a.password, "restore_dir">>)
    \o (IF TruthyTok(a.host) THEN <<"--host", a.host.val>> ELSE <<>>)
    \o (IF TruthyTok(a.port) THEN <<"--port", a.port.val>> ELSE <<>>)
    \o (IF a.drop_database THEN <<"--drop">> ELSE <<>>)

\* mongorestore(...) on the directory dir within stage; call_ok: whether
\* the command succeeds
mongorestore(stage, dir, a, call_ok) ==
    IF ~dir.exists
    THEN [calls |-> <<>>, err |-> Raised("Exception", <<"does", "not", "exist">>)]
    ELSE [calls |-> <<Op(stage, "call", RestoreCommand(a), call_ok)>>,
          err |-> IF call_ok THEN NoError ELSE CommandFailed]

\* untarbz(archive, output_directory): extracts the archive into the
\* directory, creating it.  A failed extraction may have created the
\* directory ("partial") or not ("nothing").
ArchiveContents == {"admin", "app"}

untarbz(stage, dir, outcome) ==
    [dir |-> CASE outcome = "ok" ->
                      [exists |-> TRUE, files |-> dir.files \cup ArchiveContents]
               [] outcome = "partial" ->
                      [exists |-> TRUE, files |-> dir.files \cup {"app"}]
               [] OTHER -> dir,
     calls |-> <<Op(stage, "untarbz", <<"restore_dir">>, outcome = "ok")>>,
     err |-> IF outcome = "ok" THEN NoError ELSE CommandFailed]

\* line 127-129: the admin directory is to be removed
ShouldStrip(dir, a) == a.skip_system_and_user_files /\ "admin" \in dir.files

\* (the staging directory is always cleaned up)
ShouldCleanupStaging_always(a) == TRUE

\* line 135
ShouldCleanupStaging(a) == a.cleanup

RestoreArgs ==
    [fn : {"restore"}, user : {"u"}, password : {"p"},
     host : {None, Some("db1")}, port : {None, Some("27017")},
     drop_database : BOOLEAN, cleanup : BOOLEAN, silent : BOOLEAN,
     skip_system_and_user_files : BOOLEAN]

MongorestoreArgs ==
    [fn : {"mongorestore"}, user : {"u"}, password : {"p"},
     host : {None, Some(""), Some("db1")}, port : {None, Some("27017")},
     drop_database : BOOLEAN, silent : BOOLEAN]

InitRestore ==
    /\ pc = "idle"
    /\ args = [fn |-> "none"]
    /\ clock = DateTime(2024, 3, 2, 0, 0, 0)
    /\ \E t \in BOOLEAN,
          d \in {Absent, [exists |-> TRUE, files |-> {}],
                 [exists |-> TRUE, files |-> StaleDump]} :
          /\ fs = [NoFs EXCEPT !.tbz = t, !.dump = d]
          /\ hist = [fs0 |-> [NoFs EXCEPT !.tbz = t, !.dump = d], times |-> NoTimes]
    /\ calls = <<>>
    /\ err = NoError
    /\ local = [full_file_name_path |-> <<>>, local_backup_file |-> <<>>]
    /\ python \in PythonVersions

\* restore(...) is called; lines 122-123: the archive must exist
CallRestore ==
    /\ pc = "idle"
    /\ \E a \in RestoreArgs : args' = a
    /\ err' = IF fs.tbz THEN NoError
              ELSE Raised("Exception", <<"does", "not", "exist">>)
    /\ pc' = After("untar", err')
    /\ UNCHANGED <<clock, fs, calls, local, hist, python>>

\* line 125
Untar ==
    /\ pc = "untar"
    /\ \E outcome \in {"ok", "partial", "nothing"} :
          \E r \in {untarbz("untar", fs.dump, outcome)} :
              /\ fs' = [fs EXCEPT !.dump = r.dir]
              /\ calls' = calls \o r.calls
              /\ err' = r.err
              /\ pc' = After("strip", r.err)
    /\ UNCHANGED <<args, clock, local, hist, python>>

\* lines 127-130
Strip ==
    /\ pc = "strip"
    /\ IF ShouldStrip(fs.dump, args)
       THEN \E ok \in BOOLEAN :
               /\ fs' = IF ok THEN [fs EXCEPT !.dump.files = @ \ {"admin"}] ELSE fs
               /\ calls' = calls \o <<Op("strip", "rmtree", <<"restore_dir", "admin">>, ok)>>
               /\ err' = IF ok THEN NoError ELSE OSError("rmtree")
               /\ pc' = After("mongorestore", err')
       ELSE /\ pc' = "mongorestore"
            /\ UNCHANGED <<fs, calls, err>>
    /\ UNCHANGED <<args, clock, local, hist, python>>

\* lines 132-134
Mongorestore ==
    /\ pc = "mongorestore"
    /\ \E call_ok \in BOOLEAN :
          \E r \in {mongorestore("mongorestore", fs.dump, args, call_ok)} :
              /\ calls' = calls \o r.calls
              /\ err' = r.err
              /\ pc' = After("cleanup", r.err)
    /\ UNCHANGED <<args, clock, fs, local, hist, python>>

\* lines 135-136
CleanupStaging ==
    /\ pc = "cleanup"
    /\ IF ShouldCleanupStaging(args)
       THEN \E os_ok \in BOOLEAN :
               \E ok \in {os_ok /\ fs.dump.exists} :
                   /\ fs' = IF ok THEN [fs EXCEPT !.dump = Absent] ELSE fs
                   /\ calls' = calls \o <<Op("cleanup", "rmtree", <<"restore_dir">>, ok)>>
                   /\ err' = IF ok THEN NoError ELSE OSError("rmtree")
                   /\ pc' = After("done", err')
       ELSE /\ pc' = "done"
            /\ UNCHANGED <<fs, calls, err>>
    /\ UNCHANGED <<args, clock, local, hist, python>>

\* mongorestore(...) is called on its own
CallMongorestore ==
    /\ pc = "idle"
    /\ \E a \in MongorestoreArgs, call_ok \in BOOLEAN :
          \E r \in {mongorestore("mongorestore", fs.dump, a, call_ok)} :
              /\ args' = a
              /\ calls' = calls \o r.calls
              /\ err' = r.err
              /\ pc' = After("done", r.err)
    /\ UNCHANGED <<clock, fs, local, hist, python>>

NextRestore ==
    \/ CallRestore
    \/ Untar
    \/ Strip
    \/ Mongorestore
    \/ CleanupStaging
    \/ CallMongorestore

SpecRestore == InitRestore /\ [][NextRestore]_vars

IsRestore == args.fn = "restore"

\* the call found the staging directory, or the extraction made it
StagingWasThere == hist.fs0.dump.exists \/ Succeeded("untar", "untarbz")

\* C4: restore() deletes the staging directory only after the restore
\* command has succeeded, and only with cleanup enabled: the cleanup is the
\* last operation of a run, and in a run that failed (in the extraction, in
\* the stripping, in the restore command) a staging directory that was
\* there is still there when the call is over.
C4_CleanupAfterSuccess ==
    IsRestore =>
        /\ \A i \in 1..Len(calls) :
              (calls[i].stage = "cleanup") =>
                  /\ i = Len(calls)
                  /\ args.cleanup
                  /\ Succeeded("mongorestore", "call")
        /\ (StagingWasThere /\ ~fs.dump.exists) =>
              /\ pc = "done"
              /\ calls[Len(calls)] = Op("cleanup", "rmtree", <<"restore_dir">>, TRUE)
        /\ (pc = "failed" /\ StagingWasThere) => fs.dump.exists

\* the restore command fails on an extracted archive, with cleanup enabled
C4_Witness ==
    /\ IsRestore
    /\ args.cleanup
    /\ pc = "failed"
    /\ Invoked("mongorestore", "call")
    /\ ~Succeeded("mongorestore", "call")
    /\ fs.dump.exists
    /\ "app" \in fs.dump.files

\* C6: the restore command that restore() or mongorestore() runs holds
\* --drop exactly when drop_database is true, whatever host, port and silent
\* are.
C6_DropOnlyOnRequest ==
    \A i \in 1..Len(calls) :
        (calls[i].op = "call" /\ calls[i].arg[1] = "mongorestore") =>
            ((\E k \in 1..Len(calls[i].arg) : calls[i].arg[k] = "--drop")
                 <=> args.drop_database)

C6_Witness ==
    /\ IsRestore
    /\ ~args.drop_database
    /\ args.host = Some("db1")
    /\ args.port = Some("27017")
    /\ args.silent
    /\ Succeeded("mongorestore", "call")
    /\ \A k \in 1..Len(calls[Len(calls)].arg) : calls[Len(calls)].arg[k] # "--drop"
=============================================================================
